---- MODULE Spec2Model ----
(***************************************************************************)
(* HeliothermModbusCoordinator (custom_components/heliotherm/coordinator.py)*)
(* as a state machine.                                                     *)
(*                                                                         *)
(* The coordinator runs on one asyncio event loop: a task runs without     *)
(* interruption from one suspension point (an await that really waits) to  *)
(* the next.  Every action below is one such run: it starts where a task   *)
(* is resumed (a transport call completes, the connect lock is handed      *)
(* over, the scheduler or an entity starts an operation) and ends at the   *)
(* next suspension or at the return of the top-level operation.            *)
(*                                                                         *)
(* Tasks: the scheduler's refresh task (Sched) and the entity service      *)
(* calls that write registers (Writers).  The part of the base class       *)
(* DataUpdateCoordinator the code relies on (data, last_update_success,    *)
(* async_request_refresh with its debouncer) is modelled next to the       *)
(* coordinator's own code.                                                 *)
(***************************************************************************)
EXTENDS Integers, FiniteSets, Sequences, TLC

\* ------------------------------------------------------------------ bounds
NumFields == 2      \* fields of the catalog that a cycle sweeps
NumWriters == 1     \* concurrent entity service calls

Fields == 1..NumFields
Sched == 0
Writers == 1..NumWriters
Tasks == {Sched} \cup Writers
NoTask == -1

\* --------------------------------------------------------------- snapshot
\* A snapshot (the cycle's local dict `data`, self.last_valid_data,
\* coordinator.data) is represented by its key set: which fields of the
\* catalog it holds a value for.  The sweep visits the fields in catalog
\* order (SENSOR_, SWITCH_, NUMBER_DESCRIPTORS).
EmptyDict == {}
Put(d, f) == d \cup {f}
\* coordinator.data is None until the first successful refresh
NoneData == [none |-> TRUE, keys |-> EmptyDict]
SomeData(d) == [none |-> FALSE, keys |-> d]

VARIABLES
    read_only,            \* self.read_only
    client,               \* self.client: "none" | "down" | "up" (client.connected)
    connect_lock,         \* holder of self._connect_lock, or NoTask
    last_valid_data,      \* self.last_valid_data
    data,                 \* DataUpdateCoordinator.data
    last_update_success,  \* DataUpdateCoordinator.last_update_success
    cooldown,             \* debouncer: cooldown timer armed
    execute_at_end,       \* debouncer: a call is pending for the end of the timer
    execute_lock,         \* debouncer: holder of the execute lock, or NoTask
    pc,                   \* where each task is suspended
    ctx,                  \* which code called async_connect / runs the I/O
    idx,                  \* field of the sweep the task is at (0: none)
    working,              \* the local dict `data` of the task's cycle
    ret,                  \* outcome of the writer's last async_write_register
    cycle_result,         \* outcome of the latest finished _async_update_data
    replaced,             \* a non-empty working snapshot replaced the store since the writer's call began
    accepted,             \* the device answered the writer's write with a non-error response
    descriptor,           \* decoding of one field: its descriptor ...
    registers,            \* ... result.registers of the field's read ...
    value,                \* ... and what the sweep does with the field
    setup,                \* async_setup_entry: "none" | "refreshing" | "True" | "ConfigEntryNotReady"
    hass_data,            \* config_entry.entry_id in hass.data[DOMAIN]
    platforms,            \* entity platforms forwarded for the entry
    unload                \* async_unload_entry: "none" | "True" | "False"

vars == <<read_only, client, connect_lock, last_valid_data, data,
          last_update_success, cooldown, execute_at_end, execute_lock,
          pc, ctx, idx, working, ret,
          cycle_result, replaced, accepted, descriptor, registers, value,
          setup, hass_data, platforms, unload>>

\* the variables of the decoding of a single field
codec == <<descriptor, registers, value>>

\* the variables of the config entry (hacs_heliotherm/__init__.py)
entry == <<setup, hass_data, platforms, unload>>

\* The mutable part of the state as one record, so that a handler is a
\* function from state to state and calls compose as in the code.
State ==
    [client |-> client, lock |-> connect_lock, lvd |-> last_valid_data,
     data |-> data, success |-> last_update_success, cooldown |-> cooldown,
     atEnd |-> execute_at_end, xlock |-> execute_lock,
     pc |-> pc, ctx |-> ctx, idx |-> idx, working |-> working,
     ret |-> ret, cres |-> cycle_result, replaced |-> replaced,
     accepted |-> accepted]

Apply(s) ==
    /\ client' = s.client
    /\ connect_lock' = s.lock
    /\ last_valid_data' = s.lvd
    /\ data' = s.data
    /\ last_update_success' = s.success
    /\ cooldown' = s.cooldown
    /\ execute_at_end' = s.atEnd
    /\ execute_lock' = s.xlock
    /\ pc' = s.pc
    /\ ctx' = s.ctx
    /\ idx' = s.idx
    /\ working' = s.working
    /\ ret' = s.ret
    /\ cycle_result' = s.cres
    /\ replaced' = s.replaced
    /\ accepted' = s.accepted

\* ------------------------------------------------- async_write_register end
\* return of async_write_register (True / False)
WriteReturn(s, t, r) ==
    [s EXCEPT !.pc[t] = "idle", !.ctx[t] = "none", !.idx[t] = 0,
              !.working[t] = EmptyDict, !.replaced[t] = FALSE, !.ret[t] = r]

\* ----------------------------------------------------- end of a poll cycle
\* variant: the cache is overwritten without the `if data:` guard
MergeSnapshot_AlwaysOverwrite(s, t) ==
    LET w == s.working[t]
    IN  [s EXCEPT !.lvd = w,
                  !.data = SomeData(w),
                  !.success = TRUE,
                  !.cres = IF w # EmptyDict THEN "data" ELSE "empty"]

\* variant: the fields of the cycle are merged into the cached snapshot,
\* which keeps the values of the fields that failed
MergeSnapshot_CarriesOver(s, t) ==
    LET w == s.working[t]
        newlvd == s.lvd \cup w
    IN  [s EXCEPT !.lvd = newlvd,
                  !.data = SomeData(newlvd),
                  !.success = TRUE,
                  !.cres = IF w # EmptyDict THEN "data" ELSE "empty",
                  !.replaced = [u \in Writers |->
                                  IF w # EmptyDict /\ s.pc[u] # "idle"
                                  THEN TRUE ELSE s.replaced[u]]]

\* variant: a sweep that read nothing returns the cached snapshot and then
\* clears the cache
MergeSnapshot_ClearsOnEmpty(s, t) ==
    LET w == s.working[t]
    IN  [s EXCEPT !.lvd = w,
                  !.data = SomeData(IF w # EmptyDict THEN w ELSE s.lvd),
                  !.success = TRUE,
                  !.cres = IF w # EmptyDict THEN "data" ELSE "empty",
                  !.replaced = [u \in Writers |->
                                  IF w # EmptyDict /\ s.pc[u] # "idle"
                                  THEN TRUE ELSE s.replaced[u]]]

\* `if data: self.last_valid_data = data; return data or self.last_valid_data`
\* followed by DataUpdateCoordinator._async_refresh: self.data = <returned>,
\* last_update_success = True.
MergeSnapshot(s, t) ==
    LET w == s.working[t]
        newlvd == IF w # EmptyDict THEN w ELSE s.lvd
    IN  [s EXCEPT !.lvd = newlvd,
                  !.data = SomeData(newlvd),
                  !.success = TRUE,
                  !.cres = IF w # EmptyDict THEN "data" ELSE "empty",
                  !.replaced = [u \in Writers |->
                                  IF w # EmptyDict /\ s.pc[u] # "idle"
                                  THEN TRUE ELSE s.replaced[u]]]

\* `except Exception: raise UpdateFailed` followed by _async_refresh's
\* `except UpdateFailed: last_update_success = False`
CycleFailed(s, t) ==
    [s EXCEPT !.success = FALSE, !.cres = "UpdateFailed"]

\* A cycle is over.  For the scheduler's task that is all; a cycle that ran
\* inside async_request_refresh returns through the debouncer (the execute
\* lock is released and the cooldown timer armed) to async_write_register,
\* which returns True.
RefreshDone(s, t) ==
    IF t \in Writers
    THEN WriteReturn([s EXCEPT !.xlock = NoTask, !.cooldown = TRUE],
                     t, "True")
    ELSE [s EXCEPT !.pc[t] = "idle", !.ctx[t] = "none", !.idx[t] = 0,
                   !.working[t] = EmptyDict]

\* ---------------------------------------------------------- async_connect
Waiters(s) == {u \in Tasks : s.pc[u] = "lockwait"}

RECURSIVE Connected(_, _, _)
RECURSIVE EnterConnect(_, _, _)

\* variant: async_connect creates a client without looking at the one it
\* has
UnderLock_AlwaysCreates(s, t, c) ==
    [s EXCEPT !.pc[t] = "connecting", !.ctx[t] = c,
              !.client = "down", !.lock = t]

\* body of async_connect once the lock is held: reuse a connected client,
\* else create a client and start the connect attempt
UnderLock(s, t, c) ==
    IF s.client = "up"
    THEN Connected(s, t, c)
    ELSE [s EXCEPT !.pc[t] = "connecting", !.ctx[t] = c,
                   !.client = "down", !.lock = t]

\* variant: async_connect without the connect lock
EnterConnect_NoLock(s, t, c) == UnderLock(s, t, c)

\* `async with self._connect_lock`: asyncio.Lock.acquire returns at once
\* when the lock is free and nobody waits for it, else the caller suspends
EnterConnect(s, t, c) ==
    IF s.lock # NoTask \/ Waiters(s) \ {t} # {}
    THEN [s EXCEPT !.pc[t] = "lockwait", !.ctx[t] = c]
    ELSE UnderLock(s, t, c)

\* one field of the sweep is finished (value read, or omitted): next field,
\* or merge after the last one
FieldDone(s, t) ==
    IF s.idx[t] < NumFields
    THEN EnterConnect([s EXCEPT !.idx[t] = @ + 1], t, "read")
    ELSE RefreshDone(MergeSnapshot(s, t), t)

\* async_read_register after its async_connect returned:
\* self.client.read_holding_registers(...) under wait_for; a missing client
\* raises AttributeError, caught by `except Exception`: return None
IssueRead(s, t) ==
    IF s.client = "up"
    THEN [s EXCEPT !.pc[t] = "reading", !.ctx[t] = "read"]
    ELSE FieldDone(s, t)

\* async_write_register after its async_connect returned
IssueWrite(s, t) ==
    IF s.client = "up"
    THEN [s EXCEPT !.pc[t] = "writing", !.ctx[t] = "write"]
    ELSE WriteReturn(s, t, "False")

\* async_connect returned True to its caller c
Connected(s, t, c) ==
    CASE c = "write" -> IssueWrite(s, t)
      [] c = "cycle" -> EnterConnect([s EXCEPT !.working[t] = EmptyDict,
                                               !.idx[t] = 1], t, "read")
      [] OTHER       -> IssueRead(s, t)

\* variant: the cycle swallows the failure of its first async_connect and
\* sweeps the fields
ConnectRaised_CycleContinues(s, t, c) ==
    CASE c = "write" -> WriteReturn(s, t, "False")
      [] c = "cycle" -> EnterConnect([s EXCEPT !.working[t] = EmptyDict,
                                               !.idx[t] = 1], t, "read")
      [] OTHER       -> FieldDone(s, t)

\* variant: UpdateFailed raised by the async_connect of a field read is not
\* caught in async_read_register and ends the cycle
ConnectRaised_ReadAborts(s, t, c) ==
    CASE c = "write" -> WriteReturn(s, t, "False")
      [] OTHER       -> RefreshDone(CycleFailed(s, t), t)

\* variant: UpdateFailed raised by async_connect escapes
\* async_write_register
ConnectRaised_WritePropagates(s, t, c) ==
    CASE c = "write" -> WriteReturn(s, t, "UpdateFailed")
      [] c = "cycle" -> RefreshDone(CycleFailed(s, t), t)
      [] OTHER       -> FieldDone(s, t)

\* async_connect raised UpdateFailed to its caller
ConnectRaised(s, t, c) ==
    CASE c = "write" -> WriteReturn(s, t, "False")
      [] c = "cycle" -> RefreshDone(CycleFailed(s, t), t)
      [] OTHER       -> FieldDone(s, t)

\* --------------------------------------------------------- refresh entry
\* DataUpdateCoordinator._async_refresh: cancels the debouncer, then awaits
\* _async_update_data, whose first statement is `await self.async_connect()`
StartRefresh(s, t) ==
    EnterConnect([s EXCEPT !.cooldown = FALSE, !.atEnd = FALSE], t, "cycle")

\* async_request_refresh = Debouncer.async_call (cooldown 10 s, immediate):
\* a call during the cooldown is deferred to the end of the timer, a call
\* while another one executes is dropped, else the refresh runs inline
RequestRefresh(s, t) ==
    IF s.cooldown
    THEN WriteReturn([s EXCEPT !.atEnd = TRUE], t, "True")
    ELSE IF s.xlock # NoTask
    THEN WriteReturn(s, t, "True")
    ELSE StartRefresh([s EXCEPT !.xlock = t], t)

\* ------------------------------------------------------ decoding a field
\* A register is a 16-bit word.
Words == 0..65535

\* A descriptor scale as an exact ratio (0.1 is 1/10).
Ratio(n, d) == [num |-> n, den |-> d]

\* Descriptors of the catalog the decoding is checked on (const.py):
\* sensors and numbers of each data type and scale.
Descriptors ==
    { [key |-> "supply_temperature", register |-> 100,
       data_type |-> "FLOAT32", scale |-> Ratio(1, 1)],
      [key |-> "setpoint_temperature", register |-> 104,
       data_type |-> "INT16", scale |-> Ratio(1, 10)],
      [key |-> "operating_hours", register |-> 150,
       data_type |-> "INT16", scale |-> Ratio(1, 1)],
      [key |-> "target_supply_temperature", register |-> 300,
       data_type |-> "FLOAT32", scale |-> Ratio(1, 1)],
      [key |-> "target_room_temperature", register |-> 302,
       data_type |-> "INT16", scale |-> Ratio(1, 10)] }

NoDescriptor == [key |-> "none"]

\* What the sweep does with a field: it stores a number in data[key], or it
\* leaves the field out (`continue`).  A number is
\* sign * sig * 2^exp / den; a float may also be an infinity or a NaN.
NoValue == [kind |-> "none"]
Omitted == [kind |-> "omitted", sign |-> 1, sig |-> 0, exp |-> 0, den |-> 1]
Number(kind, sign, sig, exp) ==
    [kind |-> kind, sign |-> sign, sig |-> sig, exp |-> exp, den |-> 1]

\* `register_count = 2 if descriptor.data_type == DataType.FLOAT32 else 1`
register_count(d) == IF d.data_type = "FLOAT32" THEN 2 ELSE 1

\* struct.pack('>HH', high, low): four bytes, most significant first
pack_HH(high, low) ==
    <<high \div 256, high % 256, low \div 256, low % 256>>

\* struct.unpack('>f', raw_bytes)[0]: IEEE-754 single, big-endian: sign bit,
\* 8 exponent bits (bias 127), 23 fraction bits
unpack_f(b) ==
    LET sign == IF b[1] \div 128 = 1 THEN -1 ELSE 1
        e == (b[1] % 128) * 2 + b[2] \div 128
        m == (b[2] % 128) * 65536 + b[3] * 256 + b[4]
    IN  IF e = 255
        THEN Number(IF m = 0 THEN "inf" ELSE "nan", sign, 0, 0)
        ELSE IF e = 0
        THEN Number("finite", sign, m, -149)
        ELSE Number("finite", sign, 8388608 + m, e - 150)

\* `value * descriptor.scale`
Times(v, scale) ==
    [v EXCEPT !.sig = @ * scale.num, !.den = @ * scale.den]

\* what async_read_register returns for result.registers: the first
\* register (None for an empty list) when count is 1, else the list
read_result(count, regs) ==
    IF count = 1
    THEN IF regs # <<>> THEN [kind |-> "int", int |-> regs[1], list |-> <<>>]
                        ELSE [kind |-> "None", int |-> 0, list |-> <<>>]
    ELSE [kind |-> "list", int |-> 0, list |-> regs]

\* variant: the first register is taken as the low word
DecodeField_LowWordFirst(d, regs) ==
    LET r == read_result(register_count(d), regs)
    IN  IF r.kind = "None" THEN Omitted
        ELSE IF register_count(d) = 2 /\ r.kind = "list"
        THEN IF Len(r.list) < 2 THEN Omitted
             ELSE Times(unpack_f(pack_HH(r.list[2], r.list[1])), d.scale)
        ELSE IF r.kind = "list"
        THEN IF Len(r.list) < 1 THEN Omitted
             ELSE Times(Number("finite", 1, r.list[1], 0), d.scale)
        ELSE Times(Number("finite", 1, r.int, 0), d.scale)

\* variant: an INT16 register is read as a two's complement number
DecodeField_Signed(d, regs) ==
    LET r == read_result(register_count(d), regs)
        signed(w) == IF w >= 32768
                     THEN Number("finite", -1, 65536 - w, 0)
                     ELSE Number("finite", 1, w, 0)
    IN  IF r.kind = "None" THEN Omitted
        ELSE IF register_count(d) = 2 /\ r.kind = "list"
        THEN IF Len(r.list) < 2 THEN Omitted
             ELSE Times(unpack_f(pack_HH(r.list[1], r.list[2])), d.scale)
        ELSE IF r.kind = "list"
        THEN IF Len(r.list) < 1 THEN Omitted
             ELSE Times(signed(r.list[1]), d.scale)
        ELSE Times(signed(r.int), d.scale)

\* body of the sensor loop and of the number loop of _async_update_data for
\* one descriptor: None is skipped; two registers are packed and unpacked
\* as a float (a short list raises IndexError: skipped); one register is
\* used as it is; the value is multiplied by the scale
DecodeField(d, regs) ==
    LET r == read_result(register_count(d), regs)
    IN  IF r.kind = "None" THEN Omitted
        ELSE IF register_count(d) = 2 /\ r.kind = "list"
        THEN IF Len(r.list) < 2 THEN Omitted
             ELSE Times(unpack_f(pack_HH(r.list[1], r.list[2])), d.scale)
        ELSE IF r.kind = "list"
        THEN IF Len(r.list) < 1 THEN Omitted
             ELSE Times(Number("finite", 1, r.list[1], 0), d.scale)
        ELSE Times(Number("finite", 1, r.int, 0), d.scale)

\* ================================================================ actions
EmptyWorking == [t \in Tasks |-> EmptyDict]

\* what the config entry's data can hold under "read_only"
ConfReadOnly == {"absent", "True", "False"}

\* variant: a missing key leaves the coordinator writable
get_read_only_DefaultFalse(c) == c = "True"

\* `config_entry.data.get("read_only", True)`
get_read_only(c) == IF c = "absent" THEN TRUE ELSE c = "True"

\* the coordinator after __init__
Constructed ==
    /\ read_only \in {get_read_only(c) : c \in ConfReadOnly}
    /\ client = "none"
    /\ connect_lock = NoTask
    /\ last_valid_data = EmptyDict
    /\ data = NoneData
    /\ last_update_success = TRUE
    /\ cooldown = FALSE
    /\ execute_at_end = FALSE
    /\ execute_lock = NoTask
    /\ pc = [t \in Tasks |-> "idle"]
    /\ ctx = [t \in Tasks |-> "none"]
    /\ idx = [t \in Tasks |-> 0]
    /\ working = EmptyWorking
    /\ ret = [t \in Writers |-> "none"]
    /\ cycle_result = "none"
    /\ replaced = [t \in Writers |-> FALSE]
    /\ accepted = [t \in Writers |-> FALSE]

\* the config entry before async_setup_entry
NotSetUp ==
    /\ setup = "none"
    /\ hass_data = FALSE
    /\ platforms = {}
    /\ unload = "none"

Init ==
    /\ Constructed
    /\ descriptor = NoDescriptor
    /\ registers = <<>>
    /\ value = NoValue
    /\ NotSetUp

\* the scheduler (or the debouncer's timer) starts a refresh
StartCycle ==
    /\ pc[Sched] = "idle"
    /\ Apply(StartRefresh(State, Sched))
    /\ UNCHANGED <<read_only, codec, entry>>

\* variant: async_write_register without the read_only check
StartWrite_NoReadOnlyCheck(t) ==
    /\ pc[t] = "idle"
    /\ Apply(EnterConnect([State EXCEPT !.ret[t] = "none",
                                        !.accepted[t] = FALSE], t, "write"))
    /\ UNCHANGED <<read_only, codec, entry>>

\* an entity calls async_write_register(register, value)
StartWrite(t) ==
    /\ pc[t] = "idle"
    /\ LET s0 == [State EXCEPT !.ret[t] = "none", !.accepted[t] = FALSE]
       IN  IF read_only
           THEN Apply([s0 EXCEPT !.ret[t] = "ValueError"])
           ELSE Apply(EnterConnect(s0, t, "write"))
    /\ UNCHANGED <<read_only, codec, entry>>

\* the connect lock is handed to a waiting caller
LockAcquired(t) ==
    /\ pc[t] = "lockwait"
    /\ connect_lock = NoTask
    /\ Apply(UnderLock(State, t, ctx[t]))
    /\ UNCHANGED <<read_only, codec, entry>>

ConnectOutcomes == {"ok", "refused", "timeout", "exception"}

\* variant: a failed attempt leaves the client it created in self.client
ConnectEnds_KeepsClient(s, t, o) ==
    IF o = "ok"
    THEN Connected([s EXCEPT
             !.client = IF s.client = "down" THEN "up" ELSE s.client,
             !.lock = NoTask], t, s.ctx[t])
    ELSE ConnectRaised([s EXCEPT !.lock = NoTask], t, s.ctx[t])

\* variant: the lock is not released when the attempt fails
ConnectEnds_KeepsLockOnFailure(s, t, o) ==
    IF o = "ok"
    THEN Connected([s EXCEPT
             !.client = IF s.client = "down" THEN "up" ELSE s.client,
             !.lock = NoTask], t, s.ctx[t])
    ELSE ConnectRaised([s EXCEPT !.client = "none"], t, s.ctx[t])

\* rest of async_connect after the attempt: connected, return True; refused
\* (ConnectionError), timed out or raised, self.client = None and
\* UpdateFailed; the lock is released either way
ConnectEnds(s, t, o) ==
    IF o = "ok"
    THEN Connected([s EXCEPT
             !.client = IF s.client = "down" THEN "up" ELSE s.client,
             !.lock = NoTask], t, s.ctx[t])
    ELSE ConnectRaised([s EXCEPT !.client = "none",
                                 !.lock = NoTask], t, s.ctx[t])

\* `await asyncio.wait_for(self.client.connect(), 5.0)` completes with
\* outcome o
ConnectDone(t, o) ==
    /\ pc[t] = "connecting"
    /\ Apply(ConnectEnds(State, t, o))
    /\ UNCHANGED <<read_only, codec, entry>>

\* the connect attempt of the task completes, with any outcome (outcomes
\* that end alike are one step)
ConnectCompletes(t) ==
    /\ pc[t] = "connecting"
    /\ \E s \in {ConnectEnds(State, t, o) : o \in ConnectOutcomes} : Apply(s)
    /\ UNCHANGED <<read_only, codec, entry>>

ReadOutcomes == {"ok", "error", "timeout", "exception", "short"}

\* variant: each value is stored into coordinator.data as soon as it is read
ReadEnds_InPlace(s, t, o) ==
    FieldDone(IF o = "ok"
              THEN [s EXCEPT !.working[t] = Put(@, s.idx[t]),
                             !.data = SomeData(Put(s.working[t], s.idx[t]))]
              ELSE s, t)

\* variant: a field whose read failed is read again (connect and read)
\* until it yields a value
ReadEnds_RetryUntilRead(s, t, o) ==
    IF o = "ok"
    THEN FieldDone([s EXCEPT !.working[t] = Put(@, s.idx[t])], t)
    ELSE EnterConnect(s, t, "read")

\* rest of the loop body after the read: a full register list is decoded
\* and stored in the cycle's dict; everything else omits the field
ReadEnds(s, t, o) ==
    FieldDone(IF o = "ok"
              THEN [s EXCEPT !.working[t] = Put(@, s.idx[t])]
              ELSE s, t)

\* outcomes the read can have now: it succeeds only on a connected client
ReadOutcomesNow == {o \in ReadOutcomes : o = "ok" => client = "up"}

\* `await asyncio.wait_for(self.client.read_holding_registers(...), 5.0)`
\* completes with outcome o
ReadDone(t, o) ==
    /\ pc[t] = "reading"
    /\ o \in ReadOutcomesNow
    /\ Apply(ReadEnds(State, t, o))
    /\ UNCHANGED <<read_only, codec, entry>>

\* the read of the task completes, with any outcome
ReadCompletes(t) ==
    /\ pc[t] = "reading"
    /\ \E s \in {ReadEnds(State, t, o) : o \in ReadOutcomesNow} : Apply(s)
    /\ UNCHANGED <<read_only, codec, entry>>

WriteOutcomes == {"ok", "error", "timeout", "exception"}

\* variant: async_request_refresh is awaited whatever the write did
WriteEnds_RefreshAlways(s, t, o) ==
    IF o = "ok"
    THEN RequestRefresh([s EXCEPT !.accepted[t] = TRUE], t)
    ELSE RequestRefresh(s, t)

\* rest of async_write_register after the write: a non-error response is
\* followed by async_request_refresh; everything else returns False
WriteEnds(s, t, o) ==
    IF o = "ok"
    THEN RequestRefresh([s EXCEPT !.accepted[t] = TRUE], t)
    ELSE WriteReturn(s, t, "False")

\* outcomes the write can have now
WriteOutcomesNow == {o \in WriteOutcomes : o = "ok" => client = "up"}

\* `await asyncio.wait_for(self.client.write_register(...), 5.0)` completes
\* with outcome o
WriteDone(t, o) ==
    /\ pc[t] = "writing"
    /\ o \in WriteOutcomesNow
    /\ Apply(WriteEnds(State, t, o))
    /\ UNCHANGED <<read_only, codec, entry>>

\* the write of the task completes, with any outcome
WriteCompletes(t) ==
    /\ pc[t] = "writing"
    /\ \E s \in {WriteEnds(State, t, o) : o \in WriteOutcomesNow} : Apply(s)
    /\ UNCHANGED <<read_only, codec, entry>>

\* the peer or the network drops the connection
Sever ==
    /\ client = "up"
    /\ client' = "down"
    /\ UNCHANGED <<read_only, connect_lock, last_valid_data, data,
                   last_update_success, cooldown, execute_at_end,
                   execute_lock, pc, ctx, idx, working,
                   ret, cycle_result, replaced, accepted, codec, entry>>

CloseOutcomes == {"ok", "raises"}

\* variant: no `finally`; an exception of close() skips `self.client = None`
async_disconnect_CloseRaises(c, o) ==
    IF c # "none" /\ o = "ok" THEN "none" ELSE c

\* variant: the closed client object is kept in self.client
async_disconnect_KeepsClosedClient(c, o) ==
    IF c # "none" THEN "down" ELSE c

\* async_disconnect, as a function of self.client and of the outcome of
\* close(): `if self.client:` close it (an exception of close() is logged)
\* and, in the `finally`, drop it
async_disconnect(c, o) ==
    IF c # "none" THEN "none" ELSE c

\* async_shutdown -> async_disconnect, at any time (it takes no lock and
\* nothing in the coordinator refuses later calls)
Shutdown(o) ==
    /\ client' = async_disconnect(client, o)
    /\ UNCHANGED <<read_only, connect_lock, last_valid_data, data,
                   last_update_success, cooldown, execute_at_end,
                   execute_lock, pc, ctx, idx, working,
                   ret, cycle_result, replaced, accepted, codec, entry>>

\* async_shutdown is called, close() ending either way
Disconnect ==
    /\ client' \in {async_disconnect(client, o) : o \in CloseOutcomes}
    /\ UNCHANGED <<read_only, connect_lock, last_valid_data, data,
                   last_update_success, cooldown, execute_at_end,
                   execute_lock, pc, ctx, idx, working,
                   ret, cycle_result, replaced, accepted, codec, entry>>

\* the debouncer's cooldown timer fires: a call deferred to the end of the
\* timer is made now, as a background refresh (run by the scheduler's task
\* when that is idle)
CooldownExpires ==
    /\ cooldown
    /\ LET s0 == [State EXCEPT !.cooldown = FALSE, !.atEnd = FALSE]
       IN  IF execute_at_end /\ pc[Sched] = "idle"
           THEN Apply(StartRefresh(s0, Sched))
           ELSE Apply(s0)
    /\ UNCHANGED <<read_only, codec, entry>>

Next ==
    \/ StartCycle
    \/ \E t \in Writers : StartWrite(t)
    \/ \E t \in Tasks : LockAcquired(t)
    \/ \E t \in Tasks : ConnectCompletes(t)
    \/ \E t \in Tasks : ReadCompletes(t)
    \/ \E t \in Writers : WriteCompletes(t)
    \/ Sever
    \/ Disconnect
    \/ CooldownExpires

Spec == Init /\ [][Next]_vars

TypeOK ==
    /\ client \in {"none", "down", "up"}
    /\ connect_lock \in Tasks \cup {NoTask}
    /\ execute_lock \in Writers \cup {NoTask}
    /\ \A t \in Tasks : pc[t] \in {"idle", "lockwait", "connecting", "reading", "writing"}
    /\ \A t \in Tasks : idx[t] \in 0..NumFields
    /\ \A t \in Tasks : working[t] \subseteq Fields
    /\ data.keys = last_valid_data

\* the task is inside _async_update_data
InCycle(t) == ctx[t] \in {"cycle", "read"}
\* the step ends the task's cycle
CycleEnds(t) == InCycle(t) /\ ~InCycle(t)'

\* =============================================================== claims

\* C1: with read_only true, every async_write_register is rejected with the
\* read-only error (ValueError) and issues no transport call: no writer
\* ever leaves "idle" (every connect, read, write or refresh suspends the
\* caller), and the step that rejects the call leaves the client, the
\* connect lock, the debouncer and the cached snapshot unchanged.
C1_ReadOnlyWriteRejected ==
    /\ [](read_only => \A w \in Writers : /\ pc[w] = "idle"
                                          /\ ret[w] \in {"none", "ValueError"}
                                          /\ ~accepted[w])
    /\ [][\A w \in Writers :
            (read_only /\ ret'[w] # ret[w]) =>
                /\ ret'[w] = "ValueError"
                /\ UNCHANGED <<client, connect_lock, data, last_valid_data,
                               last_update_success, cooldown, execute_at_end,
                               execute_lock, cycle_result>>]_vars

\* a write was rejected while a connection and a snapshot existed
C1_Witness ==
    /\ read_only
    /\ \E w \in Writers : ret[w] = "ValueError"
    /\ client = "up"
    /\ data.keys # {}

\* C2: when the async_connect at the start of a cycle fails (the attempt
\* on the client it created does not end connected), the cycle ends in that
\* step with UpdateFailed; and whenever a cycle ends with UpdateFailed it
\* is in that way: last_update_success becomes false, no field has been
\* read, and coordinator.data and last_valid_data are as before.
C2_ConnectFailureFailsCycle ==
    [][\A t \in Tasks :
         /\ (pc[t] = "connecting" /\ ctx[t] = "cycle" /\ ctx'[t] # "cycle"
               /\ client = "down" /\ client' # "up")
            => (CycleEnds(t) /\ cycle_result' = "UpdateFailed")
         /\ (CycleEnds(t) /\ cycle_result' = "UpdateFailed")
            => /\ pc[t] = "connecting" /\ ctx[t] = "cycle"
               /\ client' = "none"
               /\ idx[t] = 0 /\ working[t] = EmptyDict
               /\ last_update_success' = FALSE
               /\ data' = data
               /\ last_valid_data' = last_valid_data]_vars

\* a cycle failed at connect while an earlier cycle's snapshot was cached
C2_Witness ==
    /\ cycle_result = "UpdateFailed"
    /\ ~last_update_success
    /\ data.keys # {}
    /\ last_valid_data = data.keys

\* C3 as stated: a cycle that connected but read no field leaves the
\* snapshot's data and the success flag as they were.
C3_Original_SuccessUnchanged ==
    [][\A t \in Tasks :
         (CycleEnds(t) /\ cycle_result' = "empty")
            => /\ data'.keys = data.keys
               /\ last_update_success' = last_update_success]_vars

\* C3 (amended): a cycle that connected but read no field leaves the
\* snapshot's mapping and last_valid_data as they were and sets
\* last_update_success to true, whatever it was before.
C3_EmptySweepKeepsData ==
    [][\A t \in Tasks :
         (CycleEnds(t) /\ cycle_result' = "empty")
            => /\ working[t] = EmptyDict
               /\ data'.keys = data.keys
               /\ last_valid_data' = last_valid_data
               /\ ~data'.none
               /\ last_update_success' = TRUE]_vars

\* a fully failed sweep was the latest cycle and the cached snapshot is in
\* place, reported as a success
C3_Witness ==
    /\ cycle_result = "empty"
    /\ last_update_success
    /\ data.keys # {}

\* C4: once the sweep has begun, the failure of a field never ends the
\* cycle: whatever the outcome of a step of the task (connect failure,
\* error response, timeout, exception, short list), the cycle is still
\* sweeping, at the same or the next field, and the working snapshot has
\* gained at most the current field; or the field was the last of the
\* catalog and the cycle merges.  A cycle never ends before the last field.
C4_FieldFailureDoesNotAbort ==
    [][\A t \in Tasks :
         (ctx[t] = "read" /\ (pc'[t] # pc[t] \/ idx'[t] # idx[t])) =>
            \/ /\ ctx'[t] = "read"
               /\ idx'[t] \in {idx[t], idx[t] + 1}
               /\ working'[t] \subseteq working[t] \cup {idx[t]}
               /\ working[t] \subseteq working'[t]
            \/ /\ idx[t] = NumFields
               /\ CycleEnds(t)
               /\ cycle_result' \in {"data", "empty"}]_vars

\* the last field is being read although the first field was omitted
C4_Witness ==
    \E t \in Tasks : /\ pc[t] = "reading"
                     /\ idx[t] = NumFields
                     /\ 1 \notin working[t]

\* C5: coordinator.data changes only in the step that ends a cycle after
\* its last field, and then to the complete result of that cycle (the
\* working snapshot of all fields, or last_valid_data when it is empty);
\* while a sweep is in progress a consumer sees the previous snapshot.
C5_SnapshotReplacedAsWhole ==
    [][data' # data =>
         \E t \in Tasks :
            /\ ctx[t] = "read"
            /\ idx[t] = NumFields
            /\ CycleEnds(t)
            /\ ~data'.none
            /\ data'.keys = last_valid_data'
            /\ \/ data'.keys = working[t]
               \/ data'.keys = working[t] \cup {NumFields}
               \/ working[t] = EmptyDict /\ data'.keys = last_valid_data]_vars

\* a sweep is under way with a partial working snapshot that differs from
\* the published one
C5_Witness ==
    \E t \in Tasks : /\ ctx[t] = "read"
                     /\ idx[t] = NumFields
                     /\ working[t] # EmptyDict
                     /\ ~data.none
                     /\ data.keys # working[t]

\* C6 as stated: async_write_register returns True only at the end of a
\* poll cycle that ran to completion inside the call.
C6_Original_ResyncBeforeReturn ==
    [][\A w \in Writers :
         (ret[w] = "none" /\ ret'[w] = "True") => CycleEnds(w)]_vars

\* C7 as stated: when async_write_register returns True, a non-empty
\* working snapshot has replaced the store since the call began (the
\* generation of the snapshot is strictly greater than before the write).
C7_Original_GenerationAdvanced ==
    [][\A w \in Writers :
         (ret[w] = "none" /\ ret'[w] = "True")
            => (replaced[w] \/ (CycleEnds(w) /\ cycle_result' = "data"))]_vars

\* C8: with read_only false, async_write_register ends with True or False
\* and nothing else, and it has returned True exactly when the device
\* answered the write with a non-error response.
C8_WriteNeverRaises ==
    ~read_only =>
        \A w \in Writers :
            /\ ret[w] \in {"none", "True", "False"}
            /\ pc[w] = "idle" => (ret[w] = "True" <=> accepted[w])
            /\ pc[w] # "idle" => ret[w] = "none"

\* a write returned False and left no client behind (its connect attempt
\* failed, or the client was gone when the write was issued)
C8_Witness ==
    /\ ~read_only
    /\ \E w \in Writers : ret[w] = "False" /\ pc[w] = "idle"
    /\ client = "none"

InFlight == {t \in Tasks : pc[t] \in {"reading", "writing"}}

\* C9 as stated: at most one protocol transaction (register read or
\* register write) is outstanding on the connection at any time.
C9_Original_OneTransaction ==
    Cardinality(InFlight) <= 1

Connecting == {t \in Tasks : pc[t] = "connecting"}

\* C10: at most one connect attempt is in flight; the task that makes it
\* holds the connect lock, and a caller that finds the lock taken waits
\* and, once it has the lock and finds the client connected, makes no
\* attempt of its own.
C10_OneConnectAttempt ==
    /\ [](/\ Cardinality(Connecting) <= 1
          /\ \A t \in Tasks : pc[t] = "connecting" => connect_lock = t
          /\ connect_lock # NoTask => pc[connect_lock] = "connecting")
    /\ [][\A t \in Tasks :
            (pc[t] = "lockwait" /\ pc'[t] # "lockwait" /\ client = "up")
               => pc'[t] # "connecting"]_vars

\* a caller waits on the lock while another task's attempt is in flight
C10_Witness ==
    \E t, u \in Tasks : pc[t] = "connecting" /\ pc[u] = "lockwait"

\* `self.client is not None and self.client.connected`
is_connected == client = "up"

\* outcomes of the attempt after which async_connect raises UpdateFailed:
\* connect() returned False, wait_for timed out, connect() raised
ConnectFailures == ConnectOutcomes \ {"ok"}

\* the step is the end of the task's connect attempt with a failure o
ConnectFails(t, o) ==
    /\ pc[t] = "connecting"
    /\ pc'[t] # pc[t] \/ ctx'[t] # ctx[t] \/ idx'[t] # idx[t]
    /\ ConnectDone(t, o)

\* C11: when the connect attempt of a task ends refused, timed out or with
\* an exception, the client is dropped (self.client is None, is_connected
\* false) and the caller of async_connect gets the failure: a cycle at its
\* initial connect ends with UpdateFailed, a write returns False, a field
\* read omits its field.  The client is None at the end of the step unless
\* the sweep went on to its next field and created a client for it.
C11_ConnectFailureClearsState ==
    [][\A t \in Tasks :
         (\E o \in ConnectFailures : ConnectFails(t, o)) =>
            /\ ~is_connected'
            /\ \/ client' = "none"
               \/ /\ ctx[t] = "read" /\ pc'[t] = "connecting"
                  /\ idx'[t] = idx[t] + 1 /\ client' = "down"
            /\ ctx[t] = "cycle" =>
                  /\ CycleEnds(t) /\ cycle_result' = "UpdateFailed"
                  /\ ~last_update_success'
            /\ ctx[t] = "write" => /\ pc'[t] = "idle" /\ ret'[t] = "False"
            /\ ctx[t] = "read" =>
                  /\ idx[t] \notin working'[t]
                  /\ \/ ctx'[t] = "read" /\ idx'[t] = idx[t] + 1
                     \/ idx[t] = NumFields /\ CycleEnds(t)]_vars

\* the first refresh failed at its connect attempt: no client is left, the
\* coordinator is not connected and has never had data
C11_Witness ==
    /\ cycle_result = "UpdateFailed"
    /\ client = "none"
    /\ ~is_connected
    /\ data.none
    /\ \A t \in Tasks : pc[t] = "idle"

\* C12: async_disconnect always completes, whether close() succeeds or
\* raises, and it never ends with a client left: from every state, for
\* either outcome of close(), the call can be made and no run of it ends
\* with self.client set (is_connected is then false).
C12_DisconnectNeverRaises ==
    \A o \in CloseOutcomes :
        /\ ENABLED Shutdown(o)
        /\ ~ENABLED (Shutdown(o) /\ (client' # "none" \/ is_connected'))

\* the client was closed and dropped while a register read of the poll
\* cycle was outstanding on it
C12_Witness ==
    /\ read_only
    /\ pc[Sched] = "reading"
    /\ client = "none"

\* C13: async_shutdown is idempotent.  Every call ends with no client, so
\* a further call finds `self.client` None: it closes nothing (the outcome
\* of close() plays no part), raises nothing and changes nothing, and the
\* state after any number of calls in a row is the state after the first.
C13_ShutdownIdempotent ==
    /\ [](client = "none" =>
            \A o \in CloseOutcomes :
                /\ ENABLED Shutdown(o)
                /\ ~ENABLED (Shutdown(o) /\ vars' # vars))
    /\ [][\A o \in CloseOutcomes : client' # "none" => ~Shutdown(o)]_vars

\* the coordinator was shut down after a cycle that read every field: the
\* snapshot is complete and no client is left
C13_Witness ==
    /\ read_only
    /\ pc[Sched] = "idle"
    /\ cycle_result = "data"
    /\ last_valid_data = Fields
    /\ client = "none"

\* descriptor.register_type of the fields in catalog order: the sensors
\* the sweep visits first are INPUT registers (SENSOR_DESCRIPTORS), the
\* switches and numbers that end it have no register_type (holding)
register_type(f) == IF f < NumFields THEN "INPUT" ELSE "HOLDING"

\* the client method async_read_register calls for a field
ReadFunction(f) == "read_holding_registers"

\* C14 as stated: every field read outstanding in a sweep uses the read
\* function of the field's bank, read_input_registers for INPUT and
\* read_holding_registers for HOLDING.
C14_Original_ReadByBank ==
    \A t \in Tasks :
        pc[t] = "reading" =>
            ReadFunction(idx[t]) =
                (IF register_type(idx[t]) = "INPUT"
                 THEN "read_input_registers"
                 ELSE "read_holding_registers")

\* the step in which the task creates a client and starts a connect attempt
AttemptStarts(t) ==
    /\ pc'[t] = "connecting"
    /\ pc[t] # "connecting" \/ idx'[t] # idx[t] \/ ctx'[t] # ctx[t]

C16_Original_NoInternalRetry ==
    [][\A t \in Tasks : AttemptStarts(t) => ctx'[t] # "read"]_vars

\* the step ends the task's cycle with UpdateFailed and clears the success
\* flag
CycleFails(t) ==
    CycleEnds(t) /\ cycle_result' = "UpdateFailed" /\ ~last_update_success'

\* C17 as stated: a cycle fails (success cleared, UpdateFailed raised to
\* the scheduler) exactly in a step in which its initial connect attempt
\* fails or a register read of the sweep raises a protocol exception
\* (ModbusException); an error response or a timeout of a field read never
\* fails it.
C17_Original_FailureEscalation ==
    [][\A t \in Tasks :
         /\ CycleFails(t) <=>
               \/ ctx[t] = "cycle" /\ \E o \in ConnectFailures : ConnectFails(t, o)
               \/ ctx[t] = "read" /\ ReadDone(t, "exception")
         /\ (ctx[t] = "read" /\ (ReadDone(t, "error") \/ ReadDone(t, "timeout")))
               => ~CycleFails(t)]_vars

\* Every transport call is awaited under asyncio.wait_for (5 s), so it
\* completes with a result, an exception or a timeout; asyncio.Lock wakes
\* its waiters in FIFO order, so a waiter gets the lock once it has been
\* released often enough.
Fairness ==
    \A t \in Tasks :
        /\ WF_vars(\E o \in ConnectOutcomes : ConnectDone(t, o))
        /\ WF_vars(\E o \in ReadOutcomes : ReadDone(t, o))
        /\ SF_vars(LockAcquired(t))

LiveSpec == Init /\ [][Next]_vars /\ Fairness

\* C18: every poll cycle that has started ends: a task that is inside
\* _async_update_data (connecting, waiting for the connect lock or reading
\* a field) is eventually outside it, whatever the outcomes of the
\* transport calls (timeouts included).
C18_CycleTerminates ==
    \A t \in Tasks : InCycle(t) ~> ~InCycle(t)

\* a sweep has got past a field that was omitted and is reading the last
\* field
C18_Witness ==
    \E t \in Tasks : /\ InCycle(t)
                     /\ pc[t] = "reading"
                     /\ idx[t] = NumFields
                     /\ working[t] = EmptyDict

\* ------------------------------------------- decoding, field by field
\* Register contents the float decoding is checked on: first registers that
\* cover both signs, zero, subnormal, smallest normal, ordinary values
\* (1.0, 22.5, 50.0, 150.0, -40.0), infinities and NaN, the word an entity
\* writes for 45.0 or 45.5, and second registers that cover every byte
\* position.
HighWords ==
    {0, 1, 45, 127, 128, 16256, 16820, 16968, 17174, 32640, 32704, 32768,
     49696, 65408, 65535}
LowWords == {0, 1, 255, 256, 32768, 65535}

\* what result.registers can be for a read of `count` registers: the
\* registers asked for, or fewer
RegisterLists(d) ==
    IF register_count(d) = 2
    THEN {<<h, l>> : h \in HighWords, l \in LowWords}
            \cup {<<h>> : h \in HighWords} \cup {<<>>}
    ELSE {<<w>> : w \in Words} \cup {<<>>}

\* a field of the sweep has been read (the read_only flag plays no part)
DecodeInit ==
    /\ Constructed
    /\ ~read_only
    /\ descriptor \in Descriptors
    /\ registers \in RegisterLists(descriptor)
    /\ value = NoValue
    /\ NotSetUp

\* the loop body decodes the field
Decode ==
    /\ value.kind = "none"
    /\ value' = DecodeField(descriptor, registers)
    /\ UNCHANGED <<read_only, client, connect_lock, last_valid_data, data,
                   last_update_success, cooldown, execute_at_end,
                   execute_lock, pc, ctx, idx, working, ret, cycle_result,
                   replaced, accepted, descriptor, registers, entry>>

DecodeNext == Decode

DecodeSpec == DecodeInit /\ [][DecodeNext]_vars

\* C19: a FLOAT32 field for which two registers were read is stored as the
\* IEEE-754 single whose 32-bit pattern is first register * 2^16 + second
\* register (bit 31 sign, bits 30..23 exponent, bits 22..0 fraction),
\* times the scale; registers [0x41B4, 0x0000] of the field at 0x0064
\* (scale 1.0) give exactly 22.5 = 45/2.
C19_Float32Decoding ==
    (descriptor.data_type = "FLOAT32" /\ Len(registers) = 2
        /\ value.kind # "none") =>
        LET hi == registers[1]
            lo == registers[2]
            s == hi \div 32768
            e == (hi % 32768) \div 128
            f == (hi % 128) * 65536 + lo
        IN  /\ value.sign = (IF s = 1 THEN -1 ELSE 1)
            /\ value.den = descriptor.scale.den
            /\ e = 255 => value.kind = (IF f = 0 THEN "inf" ELSE "nan")
            /\ e = 0 => /\ value.kind = "finite"
                        /\ value.sig = f * descriptor.scale.num
                        /\ value.exp = -149
            /\ e \in 1..254 =>
                        /\ value.kind = "finite"
                        /\ value.sig = (8388608 + f) * descriptor.scale.num
                        /\ value.exp = e - 150
            /\ (descriptor.register = 100 /\ hi = 16820 /\ lo = 0) =>
                        /\ value.kind = "finite"
                        /\ value.exp \in -30..0
                        /\ value.sign * value.sig * 2
                              = 45 * value.den * 2^(0 - value.exp)

\* registers [0x41B4, 0x0000] of supply_temperature have been decoded
C19_Witness ==
    /\ descriptor.register = 100
    /\ registers = <<16820, 0>>
    /\ value.kind = "finite"

PLATFORMS == {"sensor"}
WRITE_MODE_PLATFORMS == {"number", "switch"}

\* a coordinator as HeliothermModbusCoordinator.__init__ leaves it
Fresh ==
    [client |-> "none", lock |-> NoTask, lvd |-> EmptyDict,
     data |-> NoneData, success |-> TRUE, cooldown |-> FALSE,
     atEnd |-> FALSE, xlock |-> NoTask,
     pc |-> [t \in Tasks |-> "idle"], ctx |-> [t \in Tasks |-> "none"],
     idx |-> [t \in Tasks |-> 0], working |-> EmptyWorking,
     ret |-> [t \in Writers |-> "none"], cres |-> "none",
     replaced |-> [t \in Writers |-> FALSE],
     accepted |-> [t \in Writers |-> FALSE]]

\* async_setup_entry is called (again after ConfigEntryNotReady): it creates
\* the coordinator and awaits async_config_entry_first_refresh under
\* wait_for(10 s)
SetupEntry ==
    /\ setup \in {"none", "ConfigEntryNotReady"}
    /\ Apply(StartRefresh(Fresh, Sched))
    /\ setup' = "refreshing"
    /\ unload' = "none"
    /\ UNCHANGED <<read_only, codec, hass_data, platforms>>

\* variant: the coordinator is stored and the platforms are forwarded
\* whatever the first refresh did
SetupEntryResumes_IgnoresFailure ==
    /\ setup = "refreshing"
    /\ pc[Sched] = "idle"
    /\ setup' = "True"
    /\ hass_data' = TRUE
    /\ platforms' = PLATFORMS \cup
                        (IF ~read_only THEN WRITE_MODE_PLATFORMS ELSE {})
    /\ UNCHANGED <<read_only, client, connect_lock, last_valid_data, data,
                   last_update_success, cooldown, execute_at_end,
                   execute_lock, pc, ctx, idx, working, ret, cycle_result,
                   replaced, accepted, codec, unload>>

\* variant: every platform is forwarded whatever the mode
SetupEntryResumes_ForwardsAll ==
    /\ setup = "refreshing"
    /\ pc[Sched] = "idle"
    /\ IF ~last_update_success
       THEN /\ setup' = "ConfigEntryNotReady"
            /\ UNCHANGED <<hass_data, platforms>>
       ELSE /\ setup' = "True"
            /\ hass_data' = TRUE
            /\ platforms' = PLATFORMS \cup WRITE_MODE_PLATFORMS
    /\ UNCHANGED <<read_only, client, connect_lock, last_valid_data, data,
                   last_update_success, cooldown, execute_at_end,
                   execute_lock, pc, ctx, idx, working, ret, cycle_result,
                   replaced, accepted, codec, unload>>

\* the first refresh is over.  async_config_entry_first_refresh raises
\* ConfigEntryNotReady when last_update_success is false, which
\* `except Exception` turns into ConfigEntryNotReady; else the coordinator
\* is stored in hass.data, PLATFORMS are forwarded, WRITE_MODE_PLATFORMS
\* too `if not coordinator.read_only`, and setup returns True.
SetupEntryResumes ==
    /\ setup = "refreshing"
    /\ pc[Sched] = "idle"
    /\ IF ~last_update_success
       THEN /\ setup' = "ConfigEntryNotReady"
            /\ UNCHANGED <<hass_data, platforms>>
       ELSE /\ setup' = "True"
            /\ hass_data' = TRUE
            /\ platforms' = PLATFORMS \cup
                        (IF ~read_only THEN WRITE_MODE_PLATFORMS ELSE {})
    /\ UNCHANGED <<read_only, client, connect_lock, last_valid_data, data,
                   last_update_success, cooldown, execute_at_end,
                   execute_lock, pc, ctx, idx, working, ret, cycle_result,
                   replaced, accepted, codec, unload>>

\* wait_for(..., timeout=10.0) expires while the first refresh is under
\* way: the refresh is cancelled where it waits (CancelledError passes
\* `except Exception`, so self.client stays as it is; the connect lock is
\* released by `async with`) and setup raises ConfigEntryNotReady
SetupEntryTimeout ==
    /\ setup = "refreshing"
    /\ pc[Sched] # "idle"
    /\ Apply([State EXCEPT !.pc[Sched] = "idle", !.ctx[Sched] = "none",
                           !.idx[Sched] = 0, !.working[Sched] = EmptyDict,
                           !.lock = IF @ = Sched THEN NoTask ELSE @])
    /\ setup' = "ConfigEntryNotReady"
    /\ UNCHANGED <<read_only, codec, hass_data, platforms, unload>>

\* the update interval elapses while the entry is loaded
ScheduledRefresh ==
    /\ setup = "True"
    /\ unload # "True"
    /\ StartCycle

\* async_unload_entry of a loaded entry; ok is the result of
\* hass.config_entries.async_unload_platforms.  Only `if unload_ok` is the
\* entry popped from hass.data; unload_ok is returned.  The coordinator is
\* not touched.
UnloadEntry(ok) ==
    /\ setup = "True"
    /\ unload # "True"
    /\ unload' = IF ok THEN "True" ELSE "False"
    /\ hass_data' = IF ok THEN FALSE ELSE hass_data
    /\ platforms' = IF ok THEN {} ELSE platforms
    /\ UNCHANGED <<read_only, client, connect_lock, last_valid_data, data,
                   last_update_success, cooldown, execute_at_end,
                   execute_lock, pc, ctx, idx, working, ret, cycle_result,
                   replaced, accepted, codec, setup>>

\* after async_unload_entry returned True the config entry runs the
\* callbacks registered with config_entry.async_on_unload, here
\* coordinator.async_shutdown; the entry is then not loaded
ProcessOnUnload(o) ==
    /\ setup = "True"
    /\ unload = "True"
    /\ client' = async_disconnect(client, o)
    /\ setup' = "none"
    /\ UNCHANGED <<read_only, connect_lock, last_valid_data, data,
                   last_update_success, cooldown, execute_at_end,
                   execute_lock, pc, ctx, idx, working, ret, cycle_result,
                   replaced, accepted, codec, hass_data, platforms, unload>>

\* async_write_register is called on the coordinator of a loaded read-only
\* entry (the writes of a writable coordinator are followed in Spec)
ReadOnlyWrite(t) ==
    /\ setup = "True"
    /\ read_only
    /\ StartWrite(t)

EntryNext ==
    \/ SetupEntry
    \/ SetupEntryResumes
    \/ SetupEntryTimeout
    \/ \E ok \in BOOLEAN : UnloadEntry(ok)
    \/ \E o \in CloseOutcomes : ProcessOnUnload(o)
    \/ ScheduledRefresh
    \/ \E t \in Writers : ReadOnlyWrite(t)
    \/ ConnectCompletes(Sched)
    \/ ReadCompletes(Sched)
    \/ Sever

EntrySpec == Init /\ [][EntryNext]_vars

\* the first refresh of the setup under way has failed
FirstRefreshFailed ==
    setup = "refreshing" /\ pc[Sched] = "idle" /\ ~last_update_success

\* the 10 s bound ends the first refresh in this step
FirstRefreshTimedOut ==
    setup = "refreshing" /\ pc[Sched] # "idle" /\ setup' # "refreshing"

HasEntities(p) ==
    /\ p \in platforms
    /\ p \in WRITE_MODE_PLATFORMS => ~read_only

\* C22: the number and switch platforms are set up exactly when the
\* coordinator is not read-only.  A loaded entry has the sensor platform;
\* it has number and switch if and only if read_only is false; in
\* read-only mode nothing but sensor is ever forwarded and no number or
\* switch entity (the only entities that call async_write_register)
\* exists.
C22_WritePlatformsIffWritable ==
    /\ (setup = "True" /\ unload # "True") =>
            /\ "sensor" \in platforms
            /\ HasEntities("sensor")
            /\ \A p \in WRITE_MODE_PLATFORMS :
                    /\ p \in platforms <=> ~read_only
                    /\ HasEntities(p) <=> ~read_only
    /\ read_only =>
            /\ platforms \subseteq PLATFORMS
            /\ \A p \in WRITE_MODE_PLATFORMS : ~HasEntities(p)

\* a read-only entry is loaded with the sensor platform alone
C22_Witness ==
    /\ read_only
    /\ setup = "True"
    /\ platforms = {"sensor"}
    /\ data.none = FALSE

\* C23 as stated: once async_unload_entry has returned True the Modbus
\* connection of the coordinator is closed (the coordinator is not
\* connected) and the entry is gone from hass.data; once it has returned
\* False the entry is still stored.
C23_Original_UnloadClosesConnection ==
    /\ unload = "True" => (~is_connected /\ ~hass_data)
    /\ unload = "False" => hass_data

\* ================================================================ entities
\* What a switch service call does with the outcome r of its
\* async_write_register ("True", "False", or the exception raised):
\* async_turn_on logs a False and returns; an exception is re-raised.
async_turn_on(r) ==
    CASE r = "True"  -> "returns"
      [] r = "False" -> "returns"
      [] OTHER       -> "raises"

\* async_turn_off raises RuntimeError on a False; an exception is re-raised
async_turn_off(r) ==
    CASE r = "True"  -> "returns"
      [] r = "False" -> "raises"
      [] OTHER       -> "raises"

\* C24 as stated: whenever the async_write_register of a switch service
\* call has returned False, the call raises to its caller, for
\* async_turn_on and for async_turn_off alike.
C24_Original_FailedWriteRaises ==
    \A t \in Writers :
        ret[t] = "False" =>
            /\ async_turn_on(ret[t]) = "raises"
            /\ async_turn_off(ret[t]) = "raises"

\* the sensors among the fields of the sweep (SENSOR_DESCRIPTORS come
\* first in catalog order)
SensorFields == {f \in Fields : f < NumFields}

\* HeliothermSensor.available: `has_data and last_update_success`, where
\* has_data is bool(coordinator.data); the sensor's key is not looked at
SensorAvailable(f) ==
    /\ ~data.none
    /\ data.keys # EmptyDict
    /\ last_update_success

\* C25 as stated: a sensor is unavailable whenever its key is absent from
\* coordinator.data, and available when its key is present and the last
\* update succeeded.
C25_Original_AbsentKeyUnavailable ==
    \A f \in SensorFields :
        /\ f \notin data.keys => ~SensorAvailable(f)
        /\ (f \in data.keys /\ last_update_success) => SensorAvailable(f)

\* C26: while the client is connected, async_connect returns True at once:
\* no step that starts connected creates a client or begins a connect
\* attempt, the connect lock is free before and after it, the client stays
\* the same unless the connection is lost or async_disconnect is called,
\* and a caller that had queued for the lock goes straight on to the read
\* or write it acquired the connection for.
C26_ConnectedClientReused ==
    [][is_connected =>
         /\ connect_lock = NoTask
         /\ connect_lock' = NoTask
         /\ \A t \in Tasks : pc'[t] # "connecting"
         /\ client' # "up" => (client' = "down" /\ Sever)
                               \/ (client' = "none" /\ \E o \in CloseOutcomes : Shutdown(o))
         /\ \A t \in Tasks :
                (pc[t] = "lockwait" /\ pc'[t] # "lockwait") =>
                    /\ pc'[t] = (IF ctx[t] = "write" THEN "writing"
                                                      ELSE "reading")
                    /\ client' = "up"]_vars

\* the scheduler's sweep and a write are both outstanding on one connected
\* client: the second to call async_connect found it connected
C26_Witness ==
    /\ is_connected
    /\ pc[Sched] = "reading"
    /\ \E t \in Writers : pc[t] = "writing"
    /\ connect_lock = NoTask

\* ================================================================= catalog
\* The descriptors of const.py: key, register address, data type, bank,
\* and for a number its range.  Switch and number descriptors carry no
\* register_type: they are read and written as holding registers.
SensorDescriptor(k, r, dt, rt) ==
    [key |-> k, register |-> r, data_type |-> dt, register_type |-> rt,
     min_value |-> 0, max_value |-> 0, writable |-> FALSE]

SwitchDescriptor(k, r, w) ==
    [key |-> k, register |-> r, data_type |-> "INT16",
     register_type |-> "HOLDING", min_value |-> 0, max_value |-> 0,
     writable |-> w]

NumberDescriptor(k, r, dt, lo, hi, w) ==
    [key |-> k, register |-> r, data_type |-> dt,
     register_type |-> "HOLDING", min_value |-> lo, max_value |-> hi,
     writable |-> w]

SENSOR_DESCRIPTORS ==
    { SensorDescriptor("supply_temperature", 100, "FLOAT32", "INPUT"),
      SensorDescriptor("return_temperature", 102, "FLOAT32", "INPUT"),
      SensorDescriptor("setpoint_temperature", 104, "INT16", "HOLDING"),
      SensorDescriptor("outside_temperature", 106, "FLOAT32", "INPUT"),
      SensorDescriptor("pump_status", 110, "INT16", "INPUT"),
      SensorDescriptor("operating_mode", 111, "INT16", "INPUT"),
      SensorDescriptor("device_status", 112, "INT16", "INPUT"),
      SensorDescriptor("system_pressure", 120, "FLOAT32", "INPUT"),
      SensorDescriptor("power_output", 130, "FLOAT32", "INPUT"),
      SensorDescriptor("coefficient_of_performance", 132, "FLOAT32", "INPUT"),
      SensorDescriptor("compressor_power_input", 140, "FLOAT32", "INPUT"),
      SensorDescriptor("flow_rate", 142, "FLOAT32", "INPUT"),
      SensorDescriptor("operating_hours", 150, "INT16", "INPUT"),
      SensorDescriptor("error_code", 151, "INT16", "INPUT") }

\* variant: a switch is given the address of the holding sensor at 0x0068
SWITCH_DESCRIPTORS_Overlap ==
    { SwitchDescriptor("circulation_pump", 200, TRUE),
      SwitchDescriptor("auxiliary_heater", 201, TRUE),
      SwitchDescriptor("compressor_enable", 202, TRUE),
      SwitchDescriptor("hot_water_pump", 104, TRUE) }

SWITCH_DESCRIPTORS ==
    { SwitchDescriptor("circulation_pump", 200, TRUE),
      SwitchDescriptor("auxiliary_heater", 201, TRUE),
      SwitchDescriptor("compressor_enable", 202, TRUE),
      SwitchDescriptor("hot_water_pump", 203, TRUE) }

NUMBER_DESCRIPTORS ==
    { NumberDescriptor("target_supply_temperature", 300, "FLOAT32", 10, 60, TRUE),
      NumberDescriptor("target_room_temperature", 302, "INT16", 10, 30, TRUE),
      NumberDescriptor("target_dhw_temperature", 304, "INT16", 30, 65, TRUE),
      NumberDescriptor("compressor_frequency_target", 306, "INT16", 0, 120, TRUE),
      NumberDescriptor("max_pressure_setpoint", 308, "FLOAT32", 1, 35, TRUE),
      NumberDescriptor("min_pressure_setpoint", 310, "FLOAT32", 1, 35, TRUE) }

Catalog == SENSOR_DESCRIPTORS \cup SWITCH_DESCRIPTORS \cup NUMBER_DESCRIPTORS

\* the addresses a descriptor occupies: register, and register + 1 for a
\* FLOAT32 (the sweep reads register_count registers from register on)
Addresses(d) == d.register .. (d.register + register_count(d) - 1)

\* the catalog entry of the descriptor being decoded
CatalogEntry == CHOOSE c \in Catalog : c.key = descriptor.key

\* the register-map invariant of the whole catalog
RegisterMapValid ==
    /\ \A d \in Catalog : \A e \in Catalog \ {d} :
            d.register_type = e.register_type =>
                Addresses(d) \cap Addresses(e) = {}
    /\ \A d \in NUMBER_DESCRIPTORS :
            d.writable => d.min_value < d.max_value

\* C27: in the shipped catalog no two descriptors of one bank share an
\* address, where a FLOAT32 descriptor occupies register and register + 1,
\* and every writable number has min_value < max_value.  For the field
\* being decoded: it is a descriptor of the catalog, and none of the
\* addresses it occupies belongs to another descriptor of its bank.
C27_CatalogRegisterMap ==
    /\ RegisterMapValid
    /\ \E c \in Catalog : /\ c.key = descriptor.key
                           /\ c.register = descriptor.register
                           /\ c.data_type = descriptor.data_type
    /\ \A e \in Catalog \ {CatalogEntry} :
            e.register_type = CatalogEntry.register_type =>
                Addresses(e) \cap Addresses(descriptor) = {}

\* the FLOAT32 field at 0x0064 has been decoded from registers 100 and 101
C27_Witness ==
    /\ descriptor.key = "supply_temperature"
    /\ Addresses(descriptor) = {100, 101}
    /\ Len(registers) = 2
    /\ value.kind = "finite"

\* ============================================================ unit identifier
\* slave_id values the config flow accepts (0..247), a sample
ConfSlaveIds == {0, 1, 2, 247}

\* the `slave` argument of read_holding_registers and write_register for an
\* entry configured with slave id c: the parameter slave_id of
\* async_read_register / async_write_register, which no caller passes and
\* which defaults to 1; the coordinator never reads the configured value
slave_id(c) == 1

\* C28 as stated: every read and write request outstanding carries the
\* slave id configured for the entry, whichever valid id that is.
C28_Original_ConfiguredSlaveSent ==
    \A t \in Tasks :
        pc[t] \in {"reading", "writing"} =>
            \A c \in ConfSlaveIds : slave_id(c) = c

\* ============================================================ writable flag
EntityMethods ==
    {"async_turn_on", "async_turn_off", "async_set_native_value"}

\* whether the entity method reaches its call of async_write_register for
\* a descriptor with the given writable flag: the number raises ValueError
\* first `if not self.descriptor.writable`, the switch methods do not look
\* at the flag
CallsWrite(method, writable) ==
    IF method = "async_set_native_value" THEN writable ELSE TRUE

\* C29 as stated: a call of async_write_register in progress was made by an
\* entity that checked its descriptor: no entity method reaches the call
\* for a descriptor with writable = False.
C29_Original_WritableChecked ==
    \A t \in Writers :
        pc[t] # "idle" =>
            \A m \in EntityMethods : ~CallsWrite(m, FALSE)

\* the fields the task's cycle has read when the step ends it: its working
\* snapshot, and the last field when the step is the successful end of
\* that field's read
Succeeded(t) ==
    IF pc[t] = "reading" /\ ReadDone(t, "ok")
    THEN working[t] \cup {idx[t]}
    ELSE working[t]

\* C30: when a cycle ends having read at least one field, the keys of
\* coordinator.data (and of last_valid_data) are exactly the fields read
\* in that cycle and the update counts as a success: a field that failed
\* in this cycle is absent, whether or not the previous snapshot had it.
C30_SnapshotIsThisCycle ==
    [][\A t \in Tasks :
         (CycleEnds(t) /\ Succeeded(t) # EmptyDict) =>
            /\ ~data'.none
            /\ data'.keys = Succeeded(t)
            /\ last_valid_data' = Succeeded(t)
            /\ last_update_success'
            /\ cycle_result' = "data"
            /\ \A f \in Fields \ Succeeded(t) : f \notin data'.keys]_vars

\* the latest cycle read the last field only and its snapshot holds that
\* field alone
C30_Witness ==
    /\ cycle_result = "data"
    /\ last_update_success
    /\ data.keys = {NumFields}
    /\ last_valid_data = {NumFields}
    /\ \A t \in Tasks : ~InCycle(t)

\* ============================================================ entity values
\* HeliothermSensor.native_value and HeliothermNumber.native_value for a
\* field whose stored value is v: None when coordinator.data has no value
\* for the key, else `raw_value * self.descriptor.scale`, where raw_value is
\* data[key] as the sweep stored it
native_value(d, v) ==
    IF v.kind \in {"none", "omitted"} THEN v ELSE Times(v, d.scale)

\* C31 as stated: for an integer field whose register r was read, the
\* native_value of the entity after the poll is r times the scale (the
\* scale is applied exactly once between register and entity).
C31_Original_ScaleAppliedOnce ==
    (descriptor.data_type \in {"INT16", "UINT16"} /\ Len(registers) = 1
        /\ value.kind = "finite") =>
        LET n == native_value(descriptor, value)
        IN  /\ n.kind = "finite"
            /\ n.exp = 0
            /\ n.sign * n.sig * descriptor.scale.den
                  = registers[1] * descriptor.scale.num * n.den

\* ------------------------------------------------------- number round trip
NumberKeys == {d.key : d \in NUMBER_DESCRIPTORS}

\* `step` of the number descriptors, in halves (0.5 is 1, 1.0 is 2)
step(k) ==
    IF k \in {"target_dhw_temperature", "compressor_frequency_target"}
    THEN 2 ELSE 1

\* the values a number entity can be set to, in halves: from min_value to
\* max_value on the step grid
NumberGrid(d) ==
    LET c == CHOOSE e \in NUMBER_DESCRIPTORS : e.key = d.key
    IN  {h \in (2 * c.min_value)..(2 * c.max_value) :
            (h - 2 * c.min_value) % step(d.key) = 0}

\* async_set_native_value(h / 2): `raw_value = int(value / scale)`, passed
\* to async_write_register(descriptor.register, raw_value), which writes
\* that one register whatever the data type
raw_value(d, h) == (h * d.scale.den) \div (2 * d.scale.num)

\* the number n is the value h / 2
IsHalves(n, h) ==
    /\ n.kind = "finite"
    /\ n.exp \in -30..0
    /\ n.sign * n.sig * 2 = h * n.den * 2^(0 - n.exp)

\* C32 as stated: when a number was set to a value of its grid, the device
\* stored the register written, and the follow-up poll has read the field,
\* the entity's native_value is the value that was set.
C32_Original_NumberRoundTrip ==
    (descriptor.key \in NumberKeys
        /\ Len(registers) = register_count(descriptor)
        /\ value.kind # "none") =>
        \A h \in NumberGrid(descriptor) :
            registers[1] = raw_value(descriptor, h) =>
                IsHalves(native_value(descriptor, value), h)

\* ============================================================ default mode
\* C33: a coordinator built from a config entry without a read_only key is
\* in read-only mode: every async_write_register made on it is rejected
\* with ValueError before any transport call (the caller never suspends and
\* no write is accepted), no write platform is forwarded for its entry and
\* no number or switch entity exists.
C33_AbsentKeyIsReadOnly ==
    /\ get_read_only("absent")
    /\ read_only = get_read_only("absent") =>
            /\ \A w \in Writers : /\ pc[w] = "idle"
                                  /\ ret[w] \in {"none", "ValueError"}
                                  /\ ~accepted[w]
            /\ platforms \cap WRITE_MODE_PLATFORMS = {}
            /\ \A p \in WRITE_MODE_PLATFORMS : ~HasEntities(p)

\* the entry of a read-only coordinator is loaded with the sensor platform
\* alone and a write made on the coordinator was rejected
C33_Witness ==
    /\ read_only = get_read_only("absent")
    /\ setup = "True"
    /\ platforms = PLATFORMS
    /\ \E w \in Writers : ret[w] = "ValueError"

\* ================================================================== reload
\* async_reload_entry: `await async_unload_entry(...)` then
\* `await async_setup_entry(...)`, both called as plain functions.  Nothing
\* registers async_reload_entry, so EntrySpec has no call of it; ReloadSpec
\* adds such calls.

\* async_reload_entry is called for a loaded entry and its
\* async_unload_entry returns ok: the entry is popped from hass.data only
\* `if unload_ok`; the result is not looked at, and the callbacks given to
\* config_entry.async_on_unload are not run (the config entry runs them,
\* and it is not unloading)
ReloadUnload(ok) ==
    /\ setup = "True"
    /\ unload # "True"
    /\ setup' = "reloading"
    /\ unload' = IF ok THEN "True" ELSE "False"
    /\ hass_data' = IF ok THEN FALSE ELSE hass_data
    /\ platforms' = IF ok THEN {} ELSE platforms
    /\ UNCHANGED <<read_only, client, connect_lock, last_valid_data, data,
                   last_update_success, cooldown, execute_at_end,
                   execute_lock, pc, ctx, idx, working, ret, cycle_result,
                   replaced, accepted, codec>>

\* async_reload_entry goes on to async_setup_entry, which creates a new
\* coordinator and starts its first refresh.  From here on the variables
\* of the coordinator describe the new one; the one it replaces is left as
\* it was.
ReloadSetup ==
    /\ setup = "reloading"
    /\ Apply(StartRefresh(Fresh, Sched))
    /\ setup' = "refreshing"
    /\ unload' = "none"
    /\ UNCHANGED <<read_only, codec, hass_data, platforms>>

ReloadNext ==
    \/ EntryNext
    \/ \E ok \in BOOLEAN : ReloadUnload(ok)
    \/ ReloadSetup

ReloadSpec == Init /\ [][ReloadNext]_vars

\* C34 as stated: when async_reload_entry creates the new coordinator, the
\* connection of the coordinator it replaces has been released (that
\* coordinator is not connected), whether the platform unload reported
\* success or failure.
C34_Original_ReloadReleasesConnection ==
    [][(setup = "reloading" /\ setup' # "reloading") => ~is_connected]_vars

\* ================================================================== cache
\* C35: the last-known-good cache is never emptied and always is the
\* working snapshot of the latest cycle that read at least one field: once
\* non-empty, last_valid_data stays non-empty; it changes only in the step
\* that ends a cycle which read a field, and every such step sets it to
\* exactly the fields that cycle read.  Failed and empty cycles, writes,
\* lost connections and disconnects leave it alone.
C35_CacheNeverEmptied ==
    [][/\ last_valid_data # EmptyDict => last_valid_data' # EmptyDict
       /\ last_valid_data' # last_valid_data =>
            \E t \in Tasks : /\ CycleEnds(t)
                             /\ Succeeded(t) # EmptyDict
                             /\ last_valid_data' = Succeeded(t)
       /\ \A t \in Tasks :
            (CycleEnds(t) /\ cycle_result' # "UpdateFailed"
                /\ Succeeded(t) # EmptyDict) =>
                last_valid_data' = Succeeded(t)
       /\ \A t \in Tasks :
            (CycleEnds(t) /\ cycle_result' \in {"UpdateFailed", "empty"}) =>
                last_valid_data' = last_valid_data]_vars

\* the cache still holds the partial snapshot of an earlier cycle after a
\* cycle that read nothing and a disconnect
C35_Witness ==
    /\ cycle_result = "empty"
    /\ last_valid_data = {1}
    /\ client = "none"
    /\ \A t \in Tasks : pc[t] = "idle"

\* ============================================================ connect result
\* C36 as stated: in the step in which the connect attempt of a task ends
\* connected and async_connect returns True, the coordinator's client is
\* set and connected when the caller goes on (to its read, its write or
\* the first field of the sweep).
C36_Original_TrueMeansConnected ==
    [][\A t \in Tasks :
         (pc[t] = "connecting" /\ ConnectDone(t, "ok")) =>
            /\ client' # "none"
            /\ is_connected']_vars

\* ========================================================== after shutdown
\* async_shutdown has returned: the unloaded entry's on_unload callback has
\* run and the entry has not been set up again
ShutdownReturned == setup = "none" /\ unload = "True"

\* C37 as stated: once async_shutdown has returned and the operations that
\* were in flight then have finished, the coordinator is not connected.
C37_Original_ClosedAfterShutdown ==
    (ShutdownReturned /\ \A t \in Tasks : pc[t] = "idle") => ~is_connected

\* ============================================================ failed write
\* the step is one of the writer's own (it moves the writer)
WriterSteps(w) == pc'[w] # pc[w] \/ ctx'[w] # ctx[w] \/ ret'[w] # ret[w]

\* the debouncer of async_request_refresh
debouncer == <<cooldown, execute_at_end, execute_lock>>

\* C38: a write that has not been answered with a non-error response
\* triggers no resync and changes neither the snapshot, nor
\* last_valid_data, nor the success flag: every step of such a write, its
\* return of False included, leaves them and the debouncer alone and starts
\* no cycle.  A refresh is requested only in the step in which the device
\* accepts a write, and once: the request is deferred to the end of the
\* cooldown, or dropped because a refresh is executing, or it starts the
\* cycle inside the call; a writer's cycle begins in no other step.
C38_FailedWriteNoResync ==
    [][\A w \in Writers :
         /\ (WriterSteps(w) /\ ~accepted'[w]) =>
               /\ UNCHANGED <<data, last_valid_data, last_update_success,
                              cycle_result, debouncer>>
               /\ ~InCycle(w)'
               /\ ret'[w] \in {"none", "False", "ValueError"}
         /\ (~accepted[w] /\ accepted'[w]) =>
               /\ pc[w] = "writing"
               /\ \/ /\ cooldown
                     /\ execute_at_end' /\ cooldown'
                     /\ execute_lock' = execute_lock
                     /\ ret'[w] = "True"
                  \/ /\ ~cooldown /\ execute_lock # NoTask
                     /\ UNCHANGED debouncer
                     /\ ret'[w] = "True"
                  \/ /\ ~cooldown /\ execute_lock = NoTask
                     /\ execute_lock' = w
                     /\ InCycle(w)'
         /\ (~InCycle(w) /\ InCycle(w)') => (~accepted[w] /\ accepted'[w])
         /\ (execute_lock # w /\ execute_lock' = w) =>
               (~accepted[w] /\ accepted'[w])
         /\ (WriterSteps(w) /\ ~execute_at_end /\ execute_at_end') =>
               (~accepted[w] /\ accepted'[w])]_vars

\* a write got an error response over a live connection and returned False:
\* the snapshot of the earlier cycle is in place and no refresh is pending
C38_Witness ==
    /\ \E w \in Writers : /\ ret[w] = "False"
                          /\ ~accepted[w]
                          /\ pc[w] = "idle"
    /\ client = "up"
    /\ data.keys = Fields
    /\ last_update_success
    /\ ~cooldown /\ ~execute_at_end /\ execute_lock = NoTask

\* ============================================================ connect lock
\* the task is inside the async_connect call it made at field i (0: the
\* call of a write or at the start of a cycle): waiting for the lock, or
\* holding it during the attempt.  Two calls in a row of one task are at
\* different fields.
InConnect(t, i) ==
    /\ pc[t] \in {"lockwait", "connecting"}
    /\ idx[t] = i

\* C39: async_connect releases the connect lock on every exit.  The lock
\* is held only by a task whose connect attempt is in flight; when an
\* attempt ends, however it ends, while a caller waits, the lock is free
\* for that caller; and every call of async_connect, whether it waits for
\* the lock or makes the attempt, comes to its end.
C39_LockAlwaysReleased ==
    /\ [](connect_lock # NoTask => pc[connect_lock] = "connecting")
    /\ [][\A t \in Tasks :
            (pc[t] = "connecting"
                /\ (pc'[t] # pc[t] \/ ctx'[t] # ctx[t] \/ idx'[t] # idx[t])
                /\ \E u \in Tasks : pc[u] = "lockwait")
               => /\ connect_lock' = NoTask
                  /\ \E u \in Tasks : pc'[u] = "lockwait"]_vars
    /\ \A t \in Tasks, i \in 0..NumFields :
            InConnect(t, i) ~> ~InConnect(t, i)

\* a write waits for the lock that the scheduler's cycle holds for a new
\* attempt, after an earlier cycle failed to connect
C39_Witness ==
    /\ \E w \in Writers : pc[w] = "lockwait" /\ ctx[w] = "write"
    /\ connect_lock = Sched
    /\ pc[Sched] = "connecting"
    /\ cycle_result = "UpdateFailed"
====
